---- MODULE Spec2Model ----
(***************************************************************************)
(* Model of the undo log of src/undo_log.rs: the VecLog event store, its   *)
(* open-snapshot counter, and the snapshot tokens handed to the caller.    *)
(*                                                                         *)
(* Program state: log, num_open_snapshots (the two fields of VecLog).      *)
(* Caller state:  tokens, the Snapshot values the caller still holds, in   *)
(*                the order they were minted.                              *)
(* History:       last (the most recent call, its arguments, the state it  *)
(*                started from and what it returned or passed to its       *)
(*                callbacks); disciplined (the caller has consumed tokens  *)
(*                newest first and has not called clear while holding      *)
(*                one); allOk (disciplined, and every call has returned);  *)
(*                stale, minted, staleUsed (the tokens minted before and   *)
(*                since the last clear); off (the calls made since the     *)
(*                discipline was broken).                                  *)
(* A second object: noUndo, a NoUndo sink and what has been offered to it. *)
(***************************************************************************)
EXTENDS Integers, Sequences, FiniteSets, TLC

VARIABLES log, num_open_snapshots, tokens, last, disciplined, allOk,
          stale, minted, staleUsed, off, noUndo

vars == <<log, num_open_snapshots, tokens, last, disciplined, allOk,
          stale, minted, staleUsed, off, noUndo>>

(* ------------------------------ bounds -------------------------------- *)

\* largest log length explored
MaxLog == 3
\* largest number of snapshot tokens minted and still held
MaxOpen == 2
\* longest sequence handed to extend
MaxExtend == 2
\* number of calls followed after the caller has broken the discipline
MaxOff == 3
\* largest number of events offered to a NoUndo between two clears
MaxOffered == 4

\* the undo events (type parameter T); two values tell orders apart
Events == {"A", "B"}

SeqsUpTo(k) == UNION {[1..m -> Events] : m \in 0..k}

(* --------------------------- pure helpers ------------------------------ *)

\* s in reverse order
Reverse(s) == [i \in 1..Len(s) |-> s[Len(s) + 1 - i]]

\* s without its last k elements (all of them if it has fewer)
DropLast(s, k) == IF k >= Len(s) THEN <<>> ELSE SubSeq(s, 1, Len(s) - k)

\* s without its i-th element
RemoveAt(s, i) == SubSeq(s, 1, i - 1) \o SubSeq(s, i + 1, Len(s))

(* --------------------- the functions of VecLog ------------------------ *)

\* push inserting at the front of the log
push_front(l, undo) == <<undo>> \o l

\* VecLog::push: self.log.push(undo)
push(l, undo) == Append(l, undo)

\* UndoLogs::extend: undos.into_iter().for_each(|undo| self.push(undo))
RECURSIVE extend(_, _)
extend(l, undos) ==
    IF undos = <<>> THEN l
    ELSE extend(push(l, Head(undos)), Tail(undos))

\* clear forgetting to reset the counter
clear_log_only(l, n) == [log |-> <<>>, n |-> n]

\* VecLog::clear: self.log.clear(); self.num_open_snapshots = 0
clear(l, n) == [log |-> <<>>, n |-> 0]

\* UndoLogs::in_snapshot: self.num_open_snapshots() > 0
in_snapshot(n) == n > 0

\* has_changes with >= for >
has_changes_ge(l, snapshot) == Len(l) >= snapshot.undo_len

\* VecLog::has_changes: self.log.len() > snapshot.undo_len
has_changes(l, snapshot) == Len(l) > snapshot.undo_len

\* actions_since_snapshot slicing from the start of the log
actions_since_snapshot_whole(l, snapshot) ==
    IF snapshot.undo_len <= Len(l)
    THEN [ok |-> TRUE, slice |-> l]
    ELSE [ok |-> FALSE, slice |-> <<>>]

\* VecLog::actions_since_snapshot: &self.log[snapshot.undo_len..]
\* The slice panics when undo_len is past the end of the log.
actions_since_snapshot(l, snapshot) ==
    IF snapshot.undo_len <= Len(l)
    THEN [ok |-> TRUE, slice |-> SubSeq(l, snapshot.undo_len + 1, Len(l))]
    ELSE [ok |-> FALSE, slice |-> <<>>]

\* start_snapshot recording one past the end of the log
start_snapshot_past_end(l, n) == [n |-> n + 1, undo_len |-> Len(l) + 1]

\* VecLog::start_snapshot: counter += 1; Snapshot { undo_len: log.len() }
start_snapshot(l, n) == [n |-> n + 1, undo_len |-> Len(l)]

\* assert_open_snapshot without the length assertion
assert_open_snapshot_counter_only(l, n, snapshot) == n > 0

\* VecLog::assert_open_snapshot: TRUE iff both assertions pass
assert_open_snapshot(l, n, snapshot) ==
    /\ Len(l) >= snapshot.undo_len
    /\ n > 0

\* the loop handing the events to reverse oldest first
rollback_loop_fifo(l, undo_len, reversed) ==
    [log |-> SubSeq(l, 1, undo_len),
     reversed |-> reversed \o SubSeq(l, undo_len + 1, Len(l))]

\* the while loop of rollback_to: pop the last event and hand it to reverse
\* until the log is back at undo_len; reversed lists the events in the order
\* reverse received them
RECURSIVE rollback_loop(_, _, _)
rollback_loop(l, undo_len, reversed) ==
    IF Len(l) > undo_len
    THEN rollback_loop(SubSeq(l, 1, Len(l) - 1), undo_len,
                       Append(reversed, l[Len(l)]))
    ELSE [log |-> l, reversed |-> reversed]

\* rollback_to stopping one event short of the snapshot
rollback_to_short(l, n, snapshot) ==
    IF ~assert_open_snapshot(l, n, snapshot)
    THEN [ok |-> FALSE, log |-> l, n |-> n, reversed |-> <<>>,
          values_calls |-> 0]
    ELSE IF Len(l) > snapshot.undo_len
    THEN LET r == rollback_loop(l, snapshot.undo_len + 1, <<>>)
         IN [ok |-> TRUE, log |-> r.log, n |-> n - 1,
             reversed |-> r.reversed, values_calls |-> 1]
    ELSE [ok |-> TRUE, log |-> l, n |-> n - 1, reversed |-> <<>>,
          values_calls |-> 0]

\* rollback_to returning early, counter untouched, when nothing was pushed
rollback_to_nodec(l, n, snapshot) ==
    IF ~assert_open_snapshot(l, n, snapshot)
    THEN [ok |-> FALSE, log |-> l, n |-> n, reversed |-> <<>>,
          values_calls |-> 0]
    ELSE IF Len(l) > snapshot.undo_len
    THEN LET r == rollback_loop(l, snapshot.undo_len, <<>>)
         IN [ok |-> TRUE, log |-> r.log, n |-> n - 1,
             reversed |-> r.reversed, values_calls |-> 1]
    ELSE [ok |-> TRUE, log |-> l, n |-> n, reversed |-> <<>>,
          values_calls |-> 0]

\* rollback_to calling values() before looking at the log
rollback_to_eager(l, n, snapshot) ==
    IF ~assert_open_snapshot(l, n, snapshot)
    THEN [ok |-> FALSE, log |-> l, n |-> n, reversed |-> <<>>,
          values_calls |-> 0]
    ELSE LET r == rollback_loop(l, snapshot.undo_len, <<>>)
         IN [ok |-> TRUE, log |-> r.log, n |-> n - 1,
             reversed |-> r.reversed, values_calls |-> 1]

\* rollback_to popping one event more than were pushed since the snapshot
rollback_to_over(l, n, snapshot) ==
    IF ~assert_open_snapshot(l, n, snapshot)
    THEN [ok |-> FALSE, log |-> l, n |-> n, reversed |-> <<>>,
          values_calls |-> 0]
    ELSE IF Len(l) > snapshot.undo_len
    THEN LET r == rollback_loop(l, IF snapshot.undo_len > 0
                                   THEN snapshot.undo_len - 1 ELSE 0, <<>>)
         IN [ok |-> TRUE, log |-> r.log, n |-> n - 1,
             reversed |-> r.reversed, values_calls |-> 1]
    ELSE [ok |-> TRUE, log |-> l, n |-> n - 1, reversed |-> <<>>,
          values_calls |-> 0]

\* VecLog::rollback_to
rollback_to(l, n, snapshot) ==
    IF ~assert_open_snapshot(l, n, snapshot)
    THEN [ok |-> FALSE, log |-> l, n |-> n, reversed |-> <<>>,
          values_calls |-> 0]
    ELSE IF Len(l) > snapshot.undo_len
    THEN LET r == rollback_loop(l, snapshot.undo_len, <<>>)
         IN [ok |-> TRUE, log |-> r.log, n |-> n - 1,
             reversed |-> r.reversed, values_calls |-> 1]
    ELSE [ok |-> TRUE, log |-> l, n |-> n - 1, reversed |-> <<>>,
          values_calls |-> 0]

\* commit clearing the log at every level
commit_always_clears(l, n, snapshot) ==
    IF ~assert_open_snapshot(l, n, snapshot)
    THEN [ok |-> FALSE, log |-> l, n |-> n]
    ELSE IF n = 1 /\ snapshot.undo_len # 0
    THEN [ok |-> FALSE, log |-> l, n |-> n]
    ELSE [ok |-> TRUE, log |-> <<>>, n |-> n - 1]

\* commit dropping the events pushed since the snapshot
commit_truncates(l, n, snapshot) ==
    IF ~assert_open_snapshot(l, n, snapshot)
    THEN [ok |-> FALSE, log |-> l, n |-> n]
    ELSE IF n = 1 /\ snapshot.undo_len # 0
    THEN [ok |-> FALSE, log |-> l, n |-> n]
    ELSE [ok |-> TRUE, log |-> SubSeq(l, 1, snapshot.undo_len), n |-> n - 1]

\* commit never clearing the log
commit_never_clears(l, n, snapshot) ==
    IF ~assert_open_snapshot(l, n, snapshot)
    THEN [ok |-> FALSE, log |-> l, n |-> n]
    ELSE IF n = 1 /\ snapshot.undo_len # 0
    THEN [ok |-> FALSE, log |-> l, n |-> n]
    ELSE [ok |-> TRUE, log |-> l, n |-> n - 1]

\* commit leaving the counter alone when it clears the log
commit_root_keeps_counter(l, n, snapshot) ==
    IF ~assert_open_snapshot(l, n, snapshot)
    THEN [ok |-> FALSE, log |-> l, n |-> n]
    ELSE IF n = 1
    THEN IF snapshot.undo_len = 0
         THEN [ok |-> TRUE, log |-> <<>>, n |-> n]
         ELSE [ok |-> FALSE, log |-> l, n |-> n]
    ELSE [ok |-> TRUE, log |-> l, n |-> n - 1]

\* commit taking a recorded length of 0, not a counter of 1, for the root
commit_clears_at_len_zero(l, n, snapshot) ==
    IF ~assert_open_snapshot(l, n, snapshot)
    THEN [ok |-> FALSE, log |-> l, n |-> n]
    ELSE IF n = 1 /\ snapshot.undo_len # 0
    THEN [ok |-> FALSE, log |-> l, n |-> n]
    ELSE IF snapshot.undo_len = 0
    THEN [ok |-> TRUE, log |-> <<>>, n |-> n - 1]
    ELSE [ok |-> TRUE, log |-> l, n |-> n - 1]

\* commit clearing the log before it asserts the root's recorded length
commit_clears_before_assert(l, n, snapshot) ==
    IF ~assert_open_snapshot(l, n, snapshot)
    THEN [ok |-> FALSE, log |-> l, n |-> n]
    ELSE IF n = 1
    THEN IF snapshot.undo_len = 0
         THEN [ok |-> TRUE, log |-> <<>>, n |-> n - 1]
         ELSE [ok |-> FALSE, log |-> <<>>, n |-> n]
    ELSE [ok |-> TRUE, log |-> l, n |-> n - 1]

\* VecLog::commit
commit(l, n, snapshot) ==
    IF ~assert_open_snapshot(l, n, snapshot)
    THEN [ok |-> FALSE, log |-> l, n |-> n]
    ELSE IF n = 1
    THEN IF snapshot.undo_len = 0
         THEN [ok |-> TRUE, log |-> <<>>, n |-> n - 1]
         ELSE [ok |-> FALSE, log |-> l, n |-> n]
    ELSE [ok |-> TRUE, log |-> l, n |-> n - 1]

(* ---------------------- the functions of NoUndo ----------------------- *)

\* NoUndo::num_open_snapshots: 0
noundo_num_open_snapshots(retained) == 0

\* push of a sink that keeps what it is given
noundo_push_keeps(retained, undo) == Append(retained, undo)

\* NoUndo::push: fn push(&mut self, _undo: T) {}
noundo_push(retained, undo) == retained

\* NoUndo::clear: fn clear(&mut self) {}
noundo_clear(retained) == retained

\* UndoLogs::extend on a NoUndo
RECURSIVE noundo_extend(_, _)
noundo_extend(retained, undos) ==
    IF undos = <<>> THEN retained
    ELSE noundo_extend(noundo_push(retained, Head(undos)), Tail(undos))

(* ------------------------------ state --------------------------------- *)

\* A Snapshot as the caller holds it.  undo_len is the field of the struct;
\* the other fields are history: root says the counter went 0 -> 1 at the
\* mint, at is the log at the mint, since lists the events pushed after the
\* mint that the log still holds, ic says a token minted later was committed
\* while this one was held, with events pushed since its own mint, ir says
\* the rollback of a token minted later undid events while this one was
\* held.
Token(undo_len, at, root) ==
    [undo_len |-> undo_len, root |-> root, at |-> at, since |-> <<>>,
     ic |-> FALSE, ir |-> FALSE]

NoToken == Token(0, <<>>, FALSE)

\* the history fields are followed only while the caller keeps the stack
\* discipline (d); afterwards they are blank
Track(ts, d) ==
    IF d THEN ts
    ELSE [i \in 1..Len(ts) |-> Token(ts[i].undo_len, <<>>, FALSE)]

\* the record of a call; idx is the position, among the tokens held, of the
\* token moved into rollback_to or commit (0 for the other calls), and
\* is_stale says that token was minted before the last clear
CallOn(op, ok, tok, reversed, values_calls, changes, slice, idx) ==
    [op |-> op, ok |-> ok, tok |-> tok,
     pre_log |-> log, pre_n |-> num_open_snapshots,
     reversed |-> reversed, values_calls |-> values_calls,
     changes |-> changes, slice |-> slice,
     idx |-> idx, is_stale |-> (idx >= 1 /\ idx <= stale)]

Call(op, ok, tok, reversed, values_calls, changes, slice) ==
    CallOn(op, ok, tok, reversed, values_calls, changes, slice, 0)

\* a NoUndo value (a unit struct): the events it retains, and as history
\* the events offered to it so far
NoUndoNew == [retained |-> <<>>, offered |-> <<>>]

\* VecLog::default and a caller holding no token
Init ==
    /\ log = <<>>
    /\ num_open_snapshots = 0
    /\ tokens = <<>>
    /\ last = [op |-> "new", ok |-> TRUE, tok |-> NoToken,
               pre_log |-> <<>>, pre_n |-> 0,
               reversed |-> <<>>, values_calls |-> 0, changes |-> FALSE,
               slice |-> <<>>, idx |-> 0, is_stale |-> FALSE]
    /\ disciplined = TRUE
    /\ allOk = TRUE
    /\ stale = 0
    /\ minted = 0
    /\ staleUsed = FALSE
    /\ off = 0
    /\ noUndo = NoUndoNew

\* every held token sees the events es pushed
NoteExtend(ts, es) ==
    [i \in 1..Len(ts) |-> [ts[i] EXCEPT !.since = @ \o es]]

\* every held token sees the whole log discarded
NoteClear(ts) ==
    [i \in 1..Len(ts) |-> [ts[i] EXCEPT !.since = <<>>]]

\* every held token sees k events undone by the rollback of a later token
NoteRollback(ts, k) ==
    [i \in 1..Len(ts) |->
        [ts[i] EXCEPT !.since = DropLast(@, k), !.ir = (@ \/ k > 0)]]

\* every held token sees the later token t committed
NoteCommit(ts, t) ==
    [i \in 1..Len(ts) |-> [ts[i] EXCEPT !.ic = (@ \/ t.since # <<>>)]]

(* ----------------------------- actions -------------------------------- *)

\* a call that leaves the discipline kept (d) or broken
Step(d) ==
    /\ d \/ off < MaxOff
    /\ off' = IF d THEN 0 ELSE off + 1

Push(undo) ==
    /\ Len(log) < MaxLog
    /\ log' = push(log, undo)
    /\ tokens' = Track(NoteExtend(tokens, <<undo>>), disciplined)
    /\ last' = Call("push", TRUE, NoToken, <<>>, 0, FALSE, <<undo>>)
    /\ Step(disciplined)
    /\ UNCHANGED <<num_open_snapshots, disciplined, allOk,
                   stale, minted, staleUsed, noUndo>>

Extend(undos) ==
    /\ Len(log) + Len(undos) <= MaxLog
    /\ log' = extend(log, undos)
    /\ tokens' = Track(NoteExtend(tokens, undos), disciplined)
    /\ last' = Call("extend", TRUE, NoToken, <<>>, 0, FALSE, undos)
    /\ Step(disciplined)
    /\ UNCHANGED <<num_open_snapshots, disciplined, allOk,
                   stale, minted, staleUsed, noUndo>>

\* clear keeps the discipline only when the caller holds no token
Clear ==
    /\ log' = clear(log, num_open_snapshots).log
    /\ num_open_snapshots' = clear(log, num_open_snapshots).n
    /\ last' = Call("clear", TRUE, NoToken, <<>>, 0, FALSE, <<>>)
    /\ disciplined' = (disciplined /\ tokens = <<>>)
    /\ tokens' = Track(NoteClear(tokens), disciplined')
    /\ allOk' = (allOk /\ disciplined')
    /\ stale' = Len(tokens)
    /\ minted' = 0
    /\ staleUsed' = FALSE
    /\ Step(disciplined')
    /\ UNCHANGED noUndo

StartSnapshot ==
    /\ Len(tokens) < MaxOpen
    /\ num_open_snapshots < MaxOpen
    /\ LET r == start_snapshot(log, num_open_snapshots)
           t == Token(r.undo_len, log, num_open_snapshots = 0)
       IN /\ num_open_snapshots' = r.n
          /\ tokens' = Track(Append(tokens, t), disciplined)
          /\ last' = Call("start_snapshot", TRUE,
                          Track(<<t>>, disciplined)[1], <<>>, 0, FALSE, <<>>)
    /\ minted' = minted + 1
    /\ Step(disciplined)
    /\ UNCHANGED <<log, disciplined, allOk, stale, staleUsed, noUndo>>

\* the i-th token held leaves the caller's hands in a call that returned
\* (ok) or failed an assertion: the tokens minted before the last clear are
\* the first `stale` ones; minted counts the tokens minted since the last
\* clear (or creation) that no rollback_to or commit that returned has
\* consumed
Consumed(i, ok) ==
    /\ stale' = IF i <= stale THEN stale - 1 ELSE stale
    /\ minted' = IF ok /\ i > stale THEN minted - 1 ELSE minted
    /\ staleUsed' = (staleUsed \/ (ok /\ i <= stale))
    /\ UNCHANGED noUndo

\* the caller passes the i-th token it holds; the token is moved into the
\* call whether or not the call completes.  Passing any token but the one
\* minted last breaks the discipline.
RollbackTo(i) ==
    /\ i \in 1..Len(tokens)
    /\ disciplined' = (disciplined /\ i = Len(tokens))
    /\ Step(disciplined')
    /\ LET r == rollback_to(log, num_open_snapshots, tokens[i])
       IN /\ log' = r.log
          /\ num_open_snapshots' = r.n
          /\ tokens' = Track(NoteRollback(RemoveAt(tokens, i),
                                          Len(tokens[i].since)), disciplined')
          /\ last' = CallOn("rollback_to", r.ok, tokens[i], r.reversed,
                            r.values_calls, FALSE, <<>>, i)
          /\ allOk' = (allOk /\ r.ok /\ disciplined')
          /\ Consumed(i, r.ok)

Commit(i) ==
    /\ i \in 1..Len(tokens)
    /\ disciplined' = (disciplined /\ i = Len(tokens))
    /\ Step(disciplined')
    /\ LET r == commit(log, num_open_snapshots, tokens[i])
           rest == RemoveAt(tokens, i)
       IN /\ log' = r.log
          /\ num_open_snapshots' = r.n
          /\ tokens' = Track(IF r.ok THEN NoteCommit(rest, tokens[i])
                             ELSE rest, disciplined')
          /\ last' = CallOn("commit", r.ok, tokens[i], <<>>, 0, FALSE, <<>>, i)
          /\ allOk' = (allOk /\ r.ok /\ disciplined')
          /\ Consumed(i, r.ok)

HasChanges(i) ==
    /\ i \in 1..Len(tokens)
    /\ last' = Call("has_changes", TRUE, tokens[i], <<>>, 0,
                    has_changes(log, tokens[i]), <<>>)
    /\ Step(disciplined)
    /\ UNCHANGED <<log, num_open_snapshots, tokens, disciplined, allOk,
                   stale, minted, staleUsed, noUndo>>

ActionsSinceSnapshot(i) ==
    /\ i \in 1..Len(tokens)
    /\ LET r == actions_since_snapshot(log, tokens[i])
       IN /\ last' = Call("actions_since_snapshot", r.ok, tokens[i], <<>>, 0,
                          FALSE, r.slice)
          /\ allOk' = (allOk /\ r.ok)
    /\ Step(disciplined)
    /\ UNCHANGED <<log, num_open_snapshots, tokens, disciplined,
                   stale, minted, staleUsed, noUndo>>

Next ==
    \/ \E undo \in Events : Push(undo)
    \/ \E undos \in SeqsUpTo(MaxExtend) : Extend(undos)
    \/ Clear
    \/ StartSnapshot
    \/ \E i \in 1..MaxOpen : RollbackTo(i)
    \/ \E i \in 1..MaxOpen : Commit(i)
    \/ \E i \in 1..MaxOpen : HasChanges(i)
    \/ \E i \in 1..MaxOpen : ActionsSinceSnapshot(i)

Spec == Init /\ [][Next]_vars

(* ------------------------- the NoUndo sink ---------------------------- *)

VecLogVars == <<log, num_open_snapshots, tokens, disciplined, allOk,
                stale, minted, staleUsed, off>>

NoUndoPush(undo) ==
    /\ Len(noUndo.offered) < MaxOffered
    /\ noUndo' = [retained |-> noundo_push(noUndo.retained, undo),
                  offered |-> Append(noUndo.offered, undo)]
    /\ last' = Call("noundo_push", TRUE, NoToken, <<>>, 0, FALSE, <<undo>>)
    /\ UNCHANGED VecLogVars

NoUndoExtend(undos) ==
    /\ Len(noUndo.offered) + Len(undos) <= MaxOffered
    /\ noUndo' = [retained |-> noundo_extend(noUndo.retained, undos),
                  offered |-> noUndo.offered \o undos]
    /\ last' = Call("noundo_extend", TRUE, NoToken, <<>>, 0, FALSE, undos)
    /\ UNCHANGED VecLogVars

NoUndoClear ==
    /\ noUndo' = [retained |-> noundo_clear(noUndo.retained),
                  offered |-> <<>>]
    /\ last' = Call("noundo_clear", TRUE, NoToken, <<>>, 0, FALSE, <<>>)
    /\ UNCHANGED VecLogVars

NextNoUndo ==
    \/ \E undo \in Events : NoUndoPush(undo)
    \/ \E undos \in SeqsUpTo(MaxExtend) : NoUndoExtend(undos)
    \/ NoUndoClear

SpecNoUndo == Init /\ [][NextNoUndo]_vars

TypeOK ==
    /\ log \in SeqsUpTo(MaxLog)
    /\ num_open_snapshots \in 0..MaxOpen
    /\ Len(tokens) <= MaxOpen
    /\ disciplined \in BOOLEAN
    /\ allOk \in BOOLEAN

(* ------------------------------ claims -------------------------------- *)

\* a rollback_to / commit call that returned
DoneRollback == last.op = "rollback_to" /\ last.ok
DoneCommit == last.op = "commit" /\ last.ok

\* the events of l after position k
After(l, k) == SubSeq(l, k + 1, Len(l))

\* C1: a rollback_to that returns, called with n >= 1 events at positions
\* s.undo_len .. len-1, hands reverse exactly those n events, the last one
\* first, and leaves the log at length s.undo_len.
C1_RollbackReversesInOrder ==
    (DoneRollback /\ Len(last.pre_log) > last.tok.undo_len) =>
        /\ Len(last.reversed) = Len(last.pre_log) - last.tok.undo_len
        /\ \A k \in 1..Len(last.reversed) :
              last.reversed[k] = last.pre_log[Len(last.pre_log) + 1 - k]
        /\ Len(log) = last.tok.undo_len

C1_Witness ==
    /\ DoneRollback
    /\ Len(last.reversed) >= 2
    /\ last.reversed[1] # last.reversed[2]

\* C2: under the stack discipline, rolling back a token hands reverse exactly
\* the events pushed since its mint that the log still holds, newest first,
\* and leaves the log equal to the log at the mint; this holds for an inner
\* token and then again for the outer one.
C2_NestedRollbackRestoresPrefix ==
    (disciplined /\ DoneRollback) =>
        /\ last.reversed = Reverse(last.tok.since)
        /\ log = last.tok.at

C2_Witness ==
    /\ disciplined /\ allOk
    /\ DoneRollback
    /\ last.tok.ir
    /\ last.tok.at # <<>>
    /\ last.reversed # <<>>

\* C3: a commit made with num_open_snapshots > 1 leaves the log as it was
\* and takes one off the counter; a commit changes the log only when it is
\* made with num_open_snapshots = 1, and then the log is empty.
C3_InnerCommitKeepsLog ==
    /\ (DoneCommit /\ last.pre_n > 1) =>
          /\ log = last.pre_log
          /\ num_open_snapshots = last.pre_n - 1
    /\ (DoneCommit /\ log # last.pre_log) =>
          /\ last.pre_n = 1
          /\ log = <<>>

C3_Witness ==
    /\ DoneCommit
    /\ last.pre_n > 1
    /\ Len(last.pre_log) > last.tok.undo_len
    /\ last.tok.undo_len > 0

\* C4: under the stack discipline, after an inner commit every token still
\* held finds in the log the events pushed since its mint, and the rollback
\* of a token that saw an inner commit hands reverse all the events pushed
\* since its mint, those pushed under the committed token included, newest
\* first, and leaves the log at the token's recorded length.
C4_InnerCommitKeepsHistory ==
    /\ (disciplined /\ allOk /\ DoneCommit) =>
          \A i \in 1..Len(tokens) :
              /\ Len(log) >= tokens[i].undo_len
              /\ After(log, tokens[i].undo_len) = tokens[i].since
    /\ (disciplined /\ allOk /\ DoneRollback /\ last.tok.ic) =>
          /\ last.reversed = Reverse(last.tok.since)
          /\ Len(log) = last.tok.undo_len

C4_Witness ==
    /\ disciplined /\ allOk
    /\ DoneRollback
    /\ last.tok.ic
    /\ Len(last.reversed) >= 2

\* C5: committing, with the counter at 1, a token minted on an empty log (as
\* the root token minted when the counter went 0 -> 1 on an empty log is)
\* leaves the log empty and the counter 0, whatever was pushed since.
C5_RootCommitClears ==
    (DoneCommit /\ last.pre_n = 1 /\ last.tok.undo_len = 0) =>
        /\ log = <<>>
        /\ num_open_snapshots = 0

C5_Witness ==
    /\ disciplined /\ allOk
    /\ DoneCommit
    /\ last.pre_n = 1
    /\ last.tok.root
    /\ last.tok.undo_len = 0
    /\ Len(last.pre_log) >= 2

\* C6: while the caller keeps the stack discipline and every call returns,
\* the counter is 0 when no token is held and > 0 while one is.
C6_CounterZeroIffNoToken ==
    (disciplined /\ allOk) =>
        /\ tokens = <<>> => num_open_snapshots = 0
        /\ tokens # <<>> => num_open_snapshots > 0

C6_Witness ==
    /\ disciplined /\ allOk
    /\ last.op \in {"commit", "rollback_to"}
    /\ last.tok.ic \/ last.tok.ir
    /\ last.pre_log # <<>>
    /\ tokens = <<>>
    /\ num_open_snapshots = 0

\* C7: a rollback_to that returns has called values() once if the log was
\* longer than the token's recorded length and not at all if it was equal;
\* in the second case reverse was not called, the log is as it was and the
\* counter is one less.
C7_LazyReversalTarget ==
    DoneRollback =>
        /\ last.values_calls =
              (IF Len(last.pre_log) > last.tok.undo_len THEN 1 ELSE 0)
        /\ Len(last.pre_log) = last.tok.undo_len =>
              /\ last.reversed = <<>>
              /\ log = last.pre_log
              /\ num_open_snapshots = last.pre_n - 1

C7_Witness ==
    /\ DoneRollback
    /\ Len(last.pre_log) = last.tok.undo_len
    /\ last.pre_log # <<>>
    /\ last.values_calls = 0

\* C8 as stated: for every token held, whatever calls came before,
\* actions_since_snapshot returns and has_changes is true iff the slice it
\* returns is not empty.
C8_AgreeAlways ==
    \A i \in 1..Len(tokens) :
        /\ actions_since_snapshot(log, tokens[i]).ok
        /\ has_changes(log, tokens[i]) <=>
              (actions_since_snapshot(log, tokens[i]).slice # <<>>)

\* C8 amended: for every token held whose recorded length is within the log,
\* which is every token held under the stack discipline, both calls return
\* and has_changes is true iff the slice is not empty; for a token whose
\* recorded length is past the end of the log has_changes returns false and
\* actions_since_snapshot panics.
C8_AgreeInBounds ==
    \A i \in 1..Len(tokens) :
        /\ tokens[i].undo_len <= Len(log) =>
              /\ actions_since_snapshot(log, tokens[i]).ok
              /\ has_changes(log, tokens[i]) <=>
                    (actions_since_snapshot(log, tokens[i]).slice # <<>>)
        /\ tokens[i].undo_len > Len(log) =>
              /\ ~actions_since_snapshot(log, tokens[i]).ok
              /\ ~has_changes(log, tokens[i])
        /\ (disciplined /\ allOk) => tokens[i].undo_len <= Len(log)

C8_Witness ==
    /\ last.op = "actions_since_snapshot"
    /\ last.ok
    /\ last.slice # <<>>
    /\ last.tok.undo_len > 0
    /\ \E i \in 1..Len(tokens) :
          tokens[i] = last.tok /\ has_changes(log, tokens[i])

\* C9: the token minted when the counter goes 0 -> 1 has undo_len = 0.
C9_RootUndoLenZero ==
    /\ \A i \in 1..Len(tokens) : tokens[i].root => tokens[i].undo_len = 0
    /\ last.tok.root => last.tok.undo_len = 0

\* C10: while the caller keeps the stack discipline, every push, extend,
\* start_snapshot, rollback_to and commit call returns.
C10_NoFailureUnderDiscipline ==
    (disciplined /\ last.op \in {"push", "extend", "start_snapshot",
                                 "rollback_to", "commit"}) => last.ok

\* the three ways of C11 to break the discipline in a rollback_to or commit:
\* a token minted later is still held; the token was minted before the last
\* clear; commit at counter 1 of a token whose recorded length is not 0
Consuming == last.op \in {"rollback_to", "commit"}
OutOfOrder == Consuming /\ last.idx <= Len(tokens)
StaleUse == Consuming /\ last.is_stale
RootLen == last.op = "commit" /\ last.pre_n = 1 /\ last.tok.undo_len # 0

\* C11 as stated: every rollback_to or commit that breaks the discipline in
\* one of the three ways fails an assertion.
C11_EveryViolationDetected ==
    (OutOfOrder \/ StaleUse \/ RootLen) => ~last.ok

\* C11 amended: a commit at counter 1 of a token whose recorded length is
\* not 0 always fails an assertion; a call that consumes a token out of order
\* or a token minted before a clear fails an assertion exactly when the log
\* is shorter than the token's recorded length, or the counter is 0, or it
\* is such a commit, and returns otherwise.
C11_DetectedByLengthAndCounter ==
    /\ RootLen => ~last.ok
    /\ (OutOfOrder \/ StaleUse) =>
          (~last.ok <=> \/ Len(last.pre_log) < last.tok.undo_len
                        \/ last.pre_n = 0
                        \/ RootLen)

C11_Witness ==
    /\ StaleUse
    /\ ~last.ok
    /\ last.pre_n > 0
    /\ Len(last.pre_log) < last.tok.undo_len

\* C12: clear returns from every state, whatever the tokens held and the
\* events logged, and leaves the log empty and the counter 0, so that
\* in_snapshot is false.
C12_ClearResets ==
    last.op = "clear" =>
        /\ last.ok
        /\ log = <<>>
        /\ num_open_snapshots = 0
        /\ ~in_snapshot(num_open_snapshots)

C12_Witness ==
    /\ last.op = "clear"
    /\ Len(tokens) >= 2
    /\ last.pre_n >= 2
    /\ last.pre_log # <<>>

\* C13 as stated: in every state the counter is the number of tokens minted
\* since creation or the last clear that no returned rollback_to or commit
\* has consumed; each rollback_to or commit that returns takes exactly one
\* off it; in_snapshot is true exactly when it is > 0.
C13_CounterIsOutstanding ==
    /\ num_open_snapshots = minted
    /\ (Consuming /\ last.ok) => num_open_snapshots = last.pre_n - 1
    /\ in_snapshot(num_open_snapshots) <=> num_open_snapshots > 0

\* C13 amended: the same, the first part only as long as no token minted
\* before a clear has been consumed, after that clear, by a rollback_to or
\* commit that returned.
C13_CounterIsOutstandingUnlessStaleUsed ==
    /\ ~staleUsed => num_open_snapshots = minted
    /\ (Consuming /\ last.ok) => num_open_snapshots = last.pre_n - 1
    /\ in_snapshot(num_open_snapshots) <=> num_open_snapshots > 0

C13_Witness ==
    /\ Consuming /\ last.ok
    /\ OutOfOrder
    /\ ~staleUsed
    /\ minted >= 1
    /\ in_snapshot(num_open_snapshots)

\* C14: start_snapshot returns from every state, adds exactly one to the
\* counter, returns a token recording the length of the log at the call,
\* and leaves the log as it was.
C14_StartSnapshotEffect ==
    last.op = "start_snapshot" =>
        /\ last.ok
        /\ num_open_snapshots = last.pre_n + 1
        /\ last.tok.undo_len = Len(last.pre_log)
        /\ tokens[Len(tokens)].undo_len = Len(last.pre_log)
        /\ log = last.pre_log

C14_Witness ==
    /\ last.op = "start_snapshot"
    /\ last.pre_n >= 1
    /\ Len(last.pre_log) >= 2

\* C15: under the stack discipline, actions_since_snapshot on a held token
\* returns the events pushed since the token's mint that the log still
\* holds, oldest first, and leaves the log, the counter and the token as
\* they were.
C15_ActionsSinceIsPushedSince ==
    (disciplined /\ last.op = "actions_since_snapshot") =>
        /\ last.ok
        /\ last.slice = last.tok.since
        /\ log = last.pre_log
        /\ num_open_snapshots = last.pre_n
        /\ \E i \in 1..Len(tokens) : tokens[i] = last.tok

C15_Witness ==
    /\ disciplined /\ allOk
    /\ last.op = "actions_since_snapshot"
    /\ last.tok.undo_len >= 1
    /\ Len(last.slice) >= 2
    /\ last.slice[1] # last.slice[2]

\* C16: push(e) leaves the log equal to the log before followed by e and
\* the counter as it was, with or without a snapshot open; extend(es)
\* leaves the log equal to the log before followed by es in order and the
\* counter as it was, as pushing each event of es in turn does.
C16_PushAppendsExtendInOrder ==
    /\ last.op = "push" =>
          /\ Len(last.slice) = 1
          /\ Len(log) = Len(last.pre_log) + 1
          /\ log = last.pre_log \o last.slice
          /\ num_open_snapshots = last.pre_n
    /\ last.op = "extend" =>
          /\ log = last.pre_log \o last.slice
          /\ num_open_snapshots = last.pre_n

C16_Witness ==
    /\ last.op = "extend"
    /\ last.pre_n = 0
    /\ last.pre_log # <<>>
    /\ Len(last.slice) >= 2
    /\ last.slice[1] # last.slice[2]

\* C17: whatever is pushed to, extended into or cleared from a NoUndo, it
\* retains no event, reports 0 open snapshots and is not in a snapshot.
C17_NoUndoKeepsNothing ==
    /\ noUndo.retained = <<>>
    /\ noundo_num_open_snapshots(noUndo.retained) = 0
    /\ ~in_snapshot(noundo_num_open_snapshots(noUndo.retained))

C17_Witness ==
    /\ last.op = "noundo_extend"
    /\ Len(last.slice) >= 2
    /\ Len(noUndo.offered) >= 3

\* the commit of C18: two tokens held under the discipline, the counter at
\* 2, and the caller commits the older one, the root minted on an empty log
OuterCommit ==
    /\ last.op = "commit"
    /\ last.idx = 1
    /\ Len(tokens) = 1
    /\ ~last.is_stale
    /\ last.tok.root
    /\ last.tok.undo_len = 0
    /\ last.pre_n = 2

\* C18 as stated: that commit fails no assertion, takes exactly one off the
\* counter and clears the log.
C18_OuterCommitClears ==
    OuterCommit =>
        /\ last.ok
        /\ num_open_snapshots = last.pre_n - 1
        /\ log = <<>>

\* C18 amended: that commit fails no assertion, takes exactly one off the
\* counter and leaves the log as it was.
C18_OuterCommitKeepsLog ==
    OuterCommit =>
        /\ last.ok
        /\ num_open_snapshots = last.pre_n - 1
        /\ log = last.pre_log

C18_Witness ==
    /\ OuterCommit
    /\ last.ok
    /\ Len(last.pre_log) >= 2
    /\ tokens[1].undo_len >= 1

\* C19: a rollback_to or commit fails an assertion exactly when the log is
\* shorter than the token's recorded length, or the counter is 0, or it is
\* a commit at counter 1 of a token whose recorded length is not 0; then the
\* log and the counter are as they were before the call, values() was not
\* called and reverse was not called.
C19_FailedCallChangesNothing ==
    Consuming =>
        /\ ~last.ok <=> \/ Len(last.pre_log) < last.tok.undo_len
                        \/ last.pre_n = 0
                        \/ RootLen
        /\ ~last.ok =>
              /\ log = last.pre_log
              /\ num_open_snapshots = last.pre_n
              /\ last.values_calls = 0
              /\ last.reversed = <<>>

C19_Witness ==
    /\ RootLen
    /\ ~last.ok
    /\ Len(last.pre_log) > last.tok.undo_len

\* C20: while the caller keeps the stack discipline and every call returns,
\* the recorded lengths of the tokens held do not decrease from the oldest
\* to the newest and none exceeds the length of the log, so that for every
\* token held the assertions of assert_open_snapshot pass and the slice of
\* actions_since_snapshot is in bounds.
C20_RecordedLengthsOrdered ==
    allOk =>
        /\ \A i, j \in 1..Len(tokens) :
              i <= j => tokens[i].undo_len <= tokens[j].undo_len
        /\ \A i \in 1..Len(tokens) :
              /\ tokens[i].undo_len <= Len(log)
              /\ assert_open_snapshot(log, num_open_snapshots, tokens[i])
              /\ actions_since_snapshot(log, tokens[i]).ok

C20_Witness ==
    /\ allOk
    /\ Len(tokens) = 2
    /\ tokens[1].ir
    /\ tokens[1].undo_len < tokens[2].undo_len
    /\ tokens[2].undo_len < Len(log)

====
